---- MODULE Spec2Model ----
(***************************************************************************)
(* Model of s2s.py: a command-line script that validates its arguments,    *)
(* connects to a Splunk instance, and either deletes a saved search or     *)
(* converts a Sigma rule, stores it as a scheduled saved search and runs   *)
(* it once, polling the job until it is ready.                             *)
(*                                                                         *)
(* Text is modelled as sequences of one-character strings so that          *)
(* strip(), split(), int() and the cron regular expression are computed    *)
(* character by character, as the Python code computes them.               *)
(***************************************************************************)
EXTENDS Integers, Sequences, FiniteSets, TLC

(***************************************************************************)
(* Bounds of the model.                                                    *)
(***************************************************************************)
MaxFieldLen == 4
MaxFields == 6
MaxPortLen == 5
MaxNotReady == 3

(***************************************************************************)
(* Character classes.                                                      *)
(***************************************************************************)
Digits == {"0", "1", "2", "3", "4", "5", "6", "7", "8", "9"}
Whitespace == {" ", "\t", "\n"}

DigitValue(c) ==
  CASE c = "0" -> 0 [] c = "1" -> 1 [] c = "2" -> 2 [] c = "3" -> 3
    [] c = "4" -> 4 [] c = "5" -> 5 [] c = "6" -> 6 [] c = "7" -> 7
    [] c = "8" -> 8 [] c = "9" -> 9

(* All sequences over chars of length 0..maxlen. *)
StringsUpTo(chars, maxlen) ==
  UNION {[1..k -> chars] : k \in 0..maxlen}

(***************************************************************************)
(* str.strip() and str.split() with no argument.                           *)
(***************************************************************************)
RECURSIVE LStrip(_)
LStrip(s) ==
  IF s = <<>> THEN s
  ELSE IF Head(s) \in Whitespace THEN LStrip(Tail(s)) ELSE s

RECURSIVE RStrip(_)
RStrip(s) ==
  IF s = <<>> THEN s
  ELSE IF s[Len(s)] \in Whitespace THEN RStrip(SubSeq(s, 1, Len(s) - 1)) ELSE s

Strip(s) == RStrip(LStrip(s))

(* Scans s from the left; cur is the field being collected, acc the fields
   found so far.  Runs of whitespace separate fields and give no empty field. *)
RECURSIVE SplitScan(_, _, _)
SplitScan(s, cur, acc) ==
  IF s = <<>>
  THEN IF cur = <<>> THEN acc ELSE Append(acc, cur)
  ELSE IF Head(s) \in Whitespace
       THEN SplitScan(Tail(s), <<>>, IF cur = <<>> THEN acc ELSE Append(acc, cur))
       ELSE SplitScan(Tail(s), Append(cur, Head(s)), acc)

Split(s) == SplitScan(s, <<>>, <<>>)

(***************************************************************************)
(* validate_cron: the regular expression                                   *)
(*   ^(\*|\d+|\*/\d+|\d+(,\d+)*|\d+-\d+)$                                  *)
(* matched as the regex engine does, by scanning from the left.            *)
(***************************************************************************)
(* Index just after the longest run of digits of p that starts at i. *)
RECURSIVE SkipDigits(_, _)
SkipDigits(p, i) ==
  IF i <= Len(p) /\ p[i] \in Digits THEN SkipDigits(p, i + 1) ELSE i

(* (,\d+)* followed by the end of the text, from index i. *)
RECURSIVE MatchListTail(_, _)
MatchListTail(p, i) ==
  \/ i = Len(p) + 1
  \/ /\ i <= Len(p)
     /\ p[i] = ","
     /\ SkipDigits(p, i + 1) > i + 1
     /\ MatchListTail(p, SkipDigits(p, i + 1))

cron_pattern_match(p) ==
  LET n == Len(p)
      d == SkipDigits(p, 1)
  IN  \/ p = <<"*">>
      \/ d > 1 /\ d = n + 1
      \/ n >= 3 /\ p[1] = "*" /\ p[2] = "/" /\ SkipDigits(p, 3) = n + 1
      \/ d > 1 /\ MatchListTail(p, d)
      \/ d > 1 /\ d <= n /\ p[d] = "-"
               /\ SkipDigits(p, d + 1) > d + 1 /\ SkipDigits(p, d + 1) = n + 1

(* Outcome of a validator: the returned value, or the kind of the
   ArgumentTypeError it raised. *)
Returned(v) == [ok |-> TRUE, value |-> v, err |-> "none"]
Raised(e) == [ok |-> FALSE, value |-> <<>>, err |-> e]
NotCalled == [ok |-> FALSE, value |-> <<>>, err |-> "not_called"]

(* Variant: only the first field is matched against the pattern. *)
validate_cron_first_only(timer) ==
  LET parts == Split(Strip(timer))
  IN  IF Len(parts) # 5 THEN Raised("field_count")
      ELSE IF ~cron_pattern_match(parts[1])
           THEN Raised("invalid_field")
           ELSE Returned(timer)

validate_cron(timer) ==
  LET parts == Split(Strip(timer))
  IN  IF Len(parts) # 5 THEN Raised("field_count")
      ELSE IF \E i \in 1..Len(parts) : ~cron_pattern_match(parts[i])
           THEN Raised("invalid_field")
           ELSE Returned(timer)

(***************************************************************************)
(* validate_host_port: str.split(':', 1), int() and the range test.        *)
(***************************************************************************)
(* Index of the first ':' of s at or after i, or 0 when there is none. *)
RECURSIVE FirstColon(_, _)
FirstColon(s, i) ==
  IF i > Len(s) THEN 0
  ELSE IF s[i] = ":" THEN i ELSE FirstColon(s, i + 1)

(* s.split(':', 1) *)
SplitFirstColon(s) ==
  LET c == FirstColon(s, 1)
  IN  IF c = 0 THEN <<s>>
      ELSE <<SubSeq(s, 1, c - 1), SubSeq(s, c + 1, Len(s))>>

(* Value of a run of digits, with single underscores allowed between
   digits; acc is the value so far and prevDigit says whether the
   previous character was a digit.  -1 stands for ValueError. *)
RECURSIVE DigitsValue(_, _, _)
DigitsValue(s, acc, prevDigit) ==
  IF s = <<>> THEN (IF prevDigit THEN acc ELSE -1)
  ELSE IF Head(s) \in Digits
       THEN DigitsValue(Tail(s), acc * 10 + DigitValue(Head(s)), TRUE)
       ELSE IF Head(s) = "_" /\ prevDigit
            THEN DigitsValue(Tail(s), acc, FALSE)
            ELSE -1

(* int(text): surrounding whitespace is ignored, one sign is allowed. *)
IntParse(text) ==
  LET t == Strip(text)
      signed == t # <<>> /\ Head(t) \in {"+", "-"}
      body == IF signed THEN Tail(t) ELSE t
      v == DigitsValue(body, 0, FALSE)
  IN  IF v = -1 THEN [ok |-> FALSE, value |-> 0]
      ELSE [ok |-> TRUE, value |-> IF signed /\ Head(t) = "-" THEN 0 - v ELSE v]

(* Variant: the range error raised inside the try block is caught by a
   handler that catches every exception. *)
validate_host_port_swallow(host_string) ==
  LET parts == SplitFirstColon(host_string)
  IN  IF Len(parts) # 2 THEN Raised("format")
      ELSE LET port == IntParse(parts[2])
           IN  IF ~port.ok THEN Raised("not_integer")
               ELSE IF ~(1 <= port.value /\ port.value <= 65535)
                    THEN Raised("not_integer")
                    ELSE Returned(host_string)

(* ArgumentTypeError is not a ValueError, so the range error raised inside
   the try block passes the except ValueError handler. *)
validate_host_port(host_string) ==
  LET parts == SplitFirstColon(host_string)
  IN  IF Len(parts) # 2 THEN Raised("format")
      ELSE LET port == IntParse(parts[2])
           IN  IF ~port.ok THEN Raised("not_integer")
               ELSE IF ~(1 <= port.value /\ port.value <= 65535)
                    THEN Raised("out_of_range")
                    ELSE Returned(host_string)


(***************************************************************************)
(* The invocation: command line, process state, platform state.            *)
(***************************************************************************)
VARIABLES
  pc,             \* position of the process in main() and its callees
  argv,           \* the raw command line
  args,           \* the namespace parse_args() returned
  exitCode,       \* process exit status, -1 while the process runs
  failure,        \* which fatal condition ended the process, "none" otherwise
  log,            \* messages logged, in order
  progressLog,    \* the statistics of every progress line logged
  trace,          \* the stages of main() entered, in order
  calls,          \* how often each collaborator was called
  command,        \* the converter command line built by convert_sigma_to_splunk
  splunk_query,   \* what convert_sigma_to_splunk returned
  search_query,   \* what create_scheduled_search returned
  savedSearches,  \* the saved searches on the platform
  jobs,           \* the query text of every job submitted
  job,            \* the platform's job handle
  readyCalls,     \* number of job.is_ready() calls
  sleeps,         \* the duration of every time.sleep() call
  stats,          \* the metrics snapshot of execute_search
  input,          \* validator under test: the text and how it was built
  result          \* validator under test: its outcome

vars == <<pc, argv, args, exitCode, failure, log, progressLog, trace, calls,
          command, splunk_query, search_query, savedSearches, jobs, job,
          readyCalls, sleeps, stats, input, result>>

(* Counters of the unbounded polling loop stop counting here. *)
CountCap == MaxNotReady + 2
Never == 0 - 1

Names == {"alerts", "other"}

DefaultTimer == <<"*", "/", "3", "0", " ", "*", " ", "*", " ", "*", " ", "*">>
DefaultHost == <<"1", "2", "7", ".", "0", ".", "0", ".", "1", ":", "8", "0", "8", "9">>
WithoutPipeline == "--without-pipeline"

SampleTimers ==
  { DefaultTimer,
    <<" ", "0", " ", "1", "-", "5", " ", "*", " ", "1", ",", "2", " ", "*", "\n">>,
    <<"*", " ", "*", " ", "*", " ", "*">>,
    <<"*", " ", "*", " ", "x", " ", "*", " ", "*">> }

SampleHosts ==
  { DefaultHost,
    <<"h", "o", "s", "t">>,
    <<"h", ":", "9", "9", "9", "9", "9">>,
    <<"h", ":", "a", "b", "c">> }

SampleRules == { <<>>, <<"">>, <<"r.yml">> }
SamplePipelines == { WithoutPipeline, "sysmon" }

(* What the converter can write to standard output. *)
ConverterOutputs ==
  { <<"f", "=", "b">>,
    <<" ", "f", "=", "b", "\n">>,
    <<"s", "e", "a", "r", "c", "h", " ", "x", "\n">> }

JobMetrics ==
  { [isDone |-> "1", doneProgress |-> 1000, scanCount |-> 100, eventCount |-> 5, resultCount |-> 5],
    [isDone |-> "0", doneProgress |-> 1000, scanCount |-> 100, eventCount |-> 5, resultCount |-> 5],
    [isDone |-> "0", doneProgress |-> 500, scanCount |-> 40, eventCount |-> 0, resultCount |-> 0] }

NoJob == [notReadyLeft |-> 0, n |-> 0, created |-> FALSE,
          metrics |-> [isDone |-> "", doneProgress |-> 0, scanCount |-> 0,
                       eventCount |-> 0, resultCount |-> 0]]
NoStats == [taken |-> 0, isDone |-> "", doneProgress |-> 0, scanCount |-> 0,
            eventCount |-> 0, resultCount |-> 0]
NoArgs == [name |-> "", host |-> <<>>, rule |-> <<>>, delete |-> FALSE,
           timer |-> <<>>, pipeline |-> ""]
NoCalls == [connect |-> 0, translate |-> 0, create |-> 0, delete |-> 0, submit |-> 0]

(* Python truth value of args.rule: None and '' are false. *)
Truthy(rule) == rule # <<>> /\ rule[1] # ""

Msg(level, msg, arg) == [level |-> level, msg |-> msg, arg |-> arg]

Init ==
  /\ pc = "parse_args"
  /\ argv \in [name : Names, host : SampleHosts, rule : SampleRules,
               delete : BOOLEAN, timer : SampleTimers, pipeline : SamplePipelines]
  /\ args = NoArgs
  /\ exitCode = -1
  /\ failure = "none"
  /\ log = <<>>
  /\ progressLog = <<>>
  /\ trace = <<>>
  /\ calls = NoCalls
  /\ command = <<>>
  /\ splunk_query = <<>>
  /\ search_query = <<>>
  /\ \E existing \in SUBSET Names :
       savedSearches = {[name |-> nm, search |-> <<"o", "l", "d">>,
                         cron_schedule |-> DefaultTimer] : nm \in existing}
  /\ jobs = <<>>
  /\ job = NoJob
  /\ readyCalls = 0
  /\ sleeps = <<>>
  /\ stats = NoStats
  /\ input = [text |-> <<>>]
  /\ result = NotCalled

(***************************************************************************)
(* Leaving the process.                                                    *)
(***************************************************************************)
(* sys.exit(1) after a logged error of the given kind. *)
ExitFailure(kind) ==
  /\ pc' = "exited"
  /\ exitCode' = 1
  /\ failure' = kind

(* parser.error(): argparse prints the usage and exits with status 2. *)
ParserError(kind) ==
  /\ pc' = "exited"
  /\ exitCode' = 2
  /\ failure' = kind

(* main() returns and the interpreter exits with status 0. *)
ExitSuccess ==
  /\ pc' = "exited"
  /\ exitCode' = 0
  /\ failure' = "none"


(***************************************************************************)
(* main(): parse_args, get_credentials, connect_to_splunk.                 *)
(***************************************************************************)
Bump(field) == [calls EXCEPT ![field] = @ + 1]

(* parser.parse_args(): the type= validators run on --host and --timer;   *)
(* -r and -d are mutually exclusive and one of them is required.           *)
ParseArgs ==
  /\ pc = "parse_args"
  /\ trace' = Append(trace, "validate")
  /\ LET host == validate_host_port(argv.host)
         timer == validate_cron(argv.timer)
         given == argv.rule # <<>>
     IN  IF ~host.ok \/ ~timer.ok
         THEN /\ ParserError("validation")
              /\ args' = args
         ELSE IF given = argv.delete
              THEN /\ ParserError("usage")
                   /\ args' = args
              ELSE /\ pc' = "get_credentials"
                   /\ args' = [name |-> argv.name, host |-> host.value,
                               rule |-> argv.rule, delete |-> argv.delete,
                               timer |-> timer.value, pipeline |-> argv.pipeline]
                   /\ UNCHANGED <<exitCode, failure>>
  /\ UNCHANGED <<argv, log, progressLog, calls, command, splunk_query,
                 search_query, savedSearches, jobs, job, readyCalls, sleeps,
                 stats, input, result>>

(* get_credentials(): environment or prompt; no platform operation. *)
GetCredentials ==
  /\ pc = "get_credentials"
  /\ pc' = "connect"
  /\ UNCHANGED <<argv, args, exitCode, failure, log, progressLog, trace, calls,
                 command, splunk_query, search_query, savedSearches, jobs, job,
                 readyCalls, sleeps, stats, input, result>>

ConnectOutcomes == {"ok", "refused", "timeout", "auth"}

(* connect_to_splunk(): one client.connect() call, no retry. *)
Connect ==
  /\ pc = "connect"
  /\ Len(SplitFirstColon(args.host)) = 2
  /\ trace' = Append(trace, "connect")
  /\ calls' = Bump("connect")
  /\ \E outcome \in ConnectOutcomes :
       CASE outcome = "ok" ->
              /\ log' = Append(log, Msg("info", "connected", ""))
              /\ pc' = "dispatch"
              /\ UNCHANGED <<exitCode, failure>>
         [] outcome \in {"refused", "timeout"} ->
              /\ log' = Append(log, Msg("error", "connection_failed", ""))
              /\ ExitFailure("connectivity")
         [] outcome = "auth" ->
              /\ log' = Append(log, Msg("error", "authentication_failed", ""))
              /\ ExitFailure("authentication")
  /\ UNCHANGED <<argv, args, progressLog, command, splunk_query, search_query,
                 savedSearches, jobs, job, readyCalls, sleeps, stats, input,
                 result>>

(* if args.delete: ... elif args.rule: ... ; with neither, main() returns. *)
Dispatch ==
  /\ pc = "dispatch"
  /\ IF args.delete
     THEN pc' = "delete" /\ UNCHANGED <<exitCode, failure>>
     ELSE IF Truthy(args.rule)
          THEN pc' = "convert" /\ UNCHANGED <<exitCode, failure>>
          ELSE ExitSuccess
  /\ UNCHANGED <<argv, args, log, progressLog, trace, calls, command,
                 splunk_query, search_query, savedSearches, jobs, job,
                 readyCalls, sleeps, stats, input, result>>

(***************************************************************************)
(* delete_saved_search                                                     *)
(***************************************************************************)
Exists(name) == \E s \in savedSearches : s.name = name

(* Variant: the KeyError is logged and the function returns. *)
DeleteKeepGoing ==
  /\ pc = "delete"
  /\ calls' = Bump("delete")
  /\ trace' = Append(trace, "delete")
  /\ IF Exists(args.name)
     THEN /\ savedSearches' = {s \in savedSearches : s.name # args.name}
          /\ log' = Append(log, Msg("info", "deleted", args.name))
          /\ ExitSuccess
     ELSE /\ savedSearches' = savedSearches
          /\ log' = Append(log, Msg("error", "not_found", args.name))
          /\ ExitSuccess
  /\ UNCHANGED <<argv, args, progressLog, command, splunk_query, search_query,
                 jobs, job, readyCalls, sleeps, stats, input, result>>

(* saved_searches.delete(name) raises KeyError for an unknown name. *)
DeleteSavedSearch ==
  /\ pc = "delete"
  /\ calls' = Bump("delete")
  /\ trace' = Append(trace, "delete")
  /\ IF Exists(args.name)
     THEN /\ savedSearches' = {s \in savedSearches : s.name # args.name}
          /\ log' = Append(log, Msg("info", "deleted", args.name))
          /\ ExitSuccess
     ELSE /\ savedSearches' = savedSearches
          /\ log' = Append(log, Msg("error", "not_found", args.name))
          /\ ExitFailure("not_found")
  /\ UNCHANGED <<argv, args, progressLog, command, splunk_query, search_query,
                 jobs, job, readyCalls, sleeps, stats, input, result>>

(***************************************************************************)
(* convert_sigma_to_splunk                                                 *)
(***************************************************************************)
ConverterCommand(rule_path, pipeline) ==
  <<"sigma", "convert", "-t", "splunk", "-f", "default", rule_path>>
    \o (IF pipeline # WithoutPipeline THEN <<"-p", pipeline>> ELSE <<>>)
    \o <<WithoutPipeline>>

(* Variant: a failed conversion is logged and main() goes on with an
   empty query. *)
ConvertGoesOn ==
  /\ pc = "convert"
  /\ calls' = Bump("translate")
  /\ trace' = Append(trace, "translate")
  /\ command' = ConverterCommand(args.rule[1], args.pipeline)
  /\ \/ \E stdout \in ConverterOutputs :
          /\ splunk_query' = Strip(stdout)
          /\ log' = Append(log, Msg("info", "generated_query", ""))
          /\ pc' = "create"
          /\ UNCHANGED <<exitCode, failure>>
     \/ /\ log' = Append(log, Msg("error", "sigma_not_found", ""))
        /\ pc' = "create"
        /\ UNCHANGED <<splunk_query, exitCode, failure>>
     \/ /\ log' = Append(log, Msg("error", "conversion_failed", ""))
        /\ pc' = "create"
        /\ UNCHANGED <<splunk_query, exitCode, failure>>
  /\ UNCHANGED <<argv, args, progressLog, search_query, savedSearches, jobs,
                 job, readyCalls, sleeps, stats, input, result>>


(* subprocess.run(): the tool is missing, exits non-zero, or writes the
   query to standard output. *)
Convert ==
  /\ pc = "convert"
  /\ calls' = Bump("translate")
  /\ trace' = Append(trace, "translate")
  /\ command' = ConverterCommand(args.rule[1], args.pipeline)
  /\ \/ \E stdout \in ConverterOutputs :
          /\ splunk_query' = Strip(stdout)
          /\ log' = Append(log, Msg("info", "generated_query", ""))
          /\ pc' = "create"
          /\ UNCHANGED <<exitCode, failure>>
     \/ /\ log' = Append(log, Msg("error", "sigma_not_found", ""))
        /\ ExitFailure("tool_not_found")
        /\ UNCHANGED splunk_query
     \/ /\ log' = Append(log, Msg("error", "conversion_failed", ""))
        /\ ExitFailure("translation")
        /\ UNCHANGED splunk_query
  /\ UNCHANGED <<argv, args, progressLog, search_query, savedSearches, jobs,
                 job, readyCalls, sleeps, stats, input, result>>


(***************************************************************************)
(* create_scheduled_search                                                 *)
(***************************************************************************)
SearchPrefix == <<"s", "e", "a", "r", "c", "h", " ">>

(* The platform answers 409 for a name it already has. *)
CreateStatuses(name) == IF Exists(name) THEN {409, 500} ELSE {201, 400, 500}

Diagnostic(status) == IF status = 400 THEN "HTTP 400" ELSE "HTTP 500"

(* Variant: the function returns the query it was given. *)
CreateReturnsQuery ==
  /\ pc = "create"
  /\ calls' = Bump("create")
  /\ trace' = Append(trace, "create")
  /\ LET wrapped == SearchPrefix \o splunk_query
     IN  \E status \in CreateStatuses(args.name) :
           IF status = 201
           THEN /\ savedSearches' = savedSearches \cup
                     {[name |-> args.name, search |-> wrapped,
                       cron_schedule |-> args.timer]}
                /\ log' = Append(log, Msg("info", "created", args.name))
                /\ search_query' = splunk_query
                /\ pc' = "execute"
                /\ UNCHANGED <<exitCode, failure>>
           ELSE /\ log' = Append(log,
                     IF status = 409
                     THEN Msg("error", "already_exists", args.name)
                     ELSE Msg("error", "create_failed", Diagnostic(status)))
                /\ ExitFailure(IF status = 409 THEN "duplicate" ELSE "creation")
                /\ UNCHANGED <<savedSearches, search_query>>
  /\ UNCHANGED <<argv, args, progressLog, command, splunk_query, jobs, job,
                 readyCalls, sleeps, stats, input, result>>

(* Variant: the HTTPError is logged and the function returns. *)
CreateLogsAndGoesOn ==
  /\ pc = "create"
  /\ calls' = Bump("create")
  /\ trace' = Append(trace, "create")
  /\ LET wrapped == SearchPrefix \o splunk_query
     IN  \E status \in CreateStatuses(args.name) :
           IF status = 201
           THEN /\ savedSearches' = savedSearches \cup
                     {[name |-> args.name, search |-> wrapped,
                       cron_schedule |-> args.timer]}
                /\ log' = Append(log, Msg("info", "created", args.name))
                /\ search_query' = wrapped
                /\ pc' = "execute"
                /\ UNCHANGED <<exitCode, failure>>
           ELSE /\ log' = Append(log,
                     IF status = 409
                     THEN Msg("error", "already_exists", args.name)
                     ELSE Msg("error", "create_failed", Diagnostic(status)))
                /\ search_query' = wrapped
                /\ pc' = "execute"
                /\ UNCHANGED <<savedSearches, exitCode, failure>>
  /\ UNCHANGED <<argv, args, progressLog, command, splunk_query, jobs, job,
                 readyCalls, sleeps, stats, input, result>>

(* saved_searches.create() with search = 'search ' + query; an HTTPError is
   logged (409 apart from the rest) and ends the process. *)
CreateScheduledSearch ==
  /\ pc = "create"
  /\ calls' = Bump("create")
  /\ trace' = Append(trace, "create")
  /\ LET wrapped == SearchPrefix \o splunk_query
     IN  \E status \in CreateStatuses(args.name) :
           IF status = 201
           THEN /\ savedSearches' = savedSearches \cup
                     {[name |-> args.name, search |-> wrapped,
                       cron_schedule |-> args.timer]}
                /\ log' = Append(log, Msg("info", "created", args.name))
                /\ search_query' = wrapped
                /\ pc' = "execute"
                /\ UNCHANGED <<exitCode, failure>>
           ELSE /\ log' = Append(log,
                     IF status = 409
                     THEN Msg("error", "already_exists", args.name)
                     ELSE Msg("error", "create_failed", Diagnostic(status)))
                /\ ExitFailure(IF status = 409 THEN "duplicate" ELSE "creation")
                /\ UNCHANGED <<savedSearches, search_query>>
  /\ UNCHANGED <<argv, args, progressLog, command, splunk_query, jobs, job,
                 readyCalls, sleeps, stats, input, result>>

(***************************************************************************)
(* execute_search                                                          *)
(***************************************************************************)
Count(n) == IF n < CountCap THEN n + 1 ELSE CountCap
SleepSeconds == 2

(* service.jobs.create(query): the platform decides how long the job stays
   not ready and what its metrics are. *)
SubmitJob ==
  /\ pc = "execute"
  /\ calls' = Bump("submit")
  /\ trace' = Append(trace, "submit")
  /\ jobs' = Append(jobs, search_query)
  /\ \E n \in (0..MaxNotReady) \cup {Never}, m \in JobMetrics :
       job' = [notReadyLeft |-> n, n |-> n, created |-> TRUE, metrics |-> m]
  /\ log' = Append(log, Msg("info", "job_created", ""))
  /\ pc' = "is_ready"
  /\ UNCHANGED <<argv, args, exitCode, failure, progressLog, command,
                 splunk_query, search_query, savedSearches, readyCalls, sleeps,
                 stats, input, result>>

(* Variant: the loop gives up after a maximum number of checks. *)
IsReadyWithTimeout ==
  /\ pc = "is_ready"
  /\ readyCalls' = Count(readyCalls)
  /\ trace' = IF readyCalls = 0 THEN Append(trace, "poll") ELSE trace
  /\ IF job.notReadyLeft = 0 \/ readyCalls >= MaxNotReady + 1
     THEN pc' = "snapshot" /\ job' = job
     ELSE /\ pc' = "sleep"
          /\ job' = IF job.notReadyLeft = Never THEN job
                    ELSE [job EXCEPT !.notReadyLeft = @ - 1]
  /\ UNCHANGED <<argv, args, exitCode, failure, log, progressLog, calls,
                 command, splunk_query, search_query, savedSearches, jobs,
                 sleeps, stats, input, result>>

(* while not job.is_ready(): one evaluation of the loop condition. *)
IsReady ==
  /\ pc = "is_ready"
  /\ readyCalls' = Count(readyCalls)
  /\ trace' = IF readyCalls = 0 THEN Append(trace, "poll") ELSE trace
  /\ IF job.notReadyLeft = 0
     THEN pc' = "snapshot" /\ job' = job
     ELSE /\ pc' = "sleep"
          /\ job' = IF job.notReadyLeft = Never THEN job
                    ELSE [job EXCEPT !.notReadyLeft = @ - 1]
  /\ UNCHANGED <<argv, args, exitCode, failure, log, progressLog, calls,
                 command, splunk_query, search_query, savedSearches, jobs,
                 sleeps, stats, input, result>>

(* time.sleep(2) *)
Sleep ==
  /\ pc = "sleep"
  /\ sleeps' = IF Len(sleeps) < CountCap THEN Append(sleeps, SleepSeconds) ELSE sleeps
  /\ pc' = "is_ready"
  /\ UNCHANGED <<argv, args, exitCode, failure, log, progressLog, trace, calls,
                 command, splunk_query, search_query, savedSearches, jobs, job,
                 readyCalls, stats, input, result>>

(* stats = {...}: the five metrics are read once; doneProgress, a fraction
   in thousandths, becomes a percentage. *)
Snapshot ==
  /\ pc = "snapshot"
  /\ stats' = [taken |-> stats.taken + 1,
               isDone |-> job.metrics.isDone,
               doneProgress |-> job.metrics.doneProgress * 100,
               scanCount |-> job.metrics.scanCount,
               eventCount |-> job.metrics.eventCount,
               resultCount |-> job.metrics.resultCount]
  /\ pc' = "log_progress"
  /\ UNCHANGED <<argv, args, exitCode, failure, log, progressLog, trace, calls,
                 command, splunk_query, search_query, savedSearches, jobs, job,
                 readyCalls, sleeps, input, result>>

(* The progress line; the percentage is printed with one decimal. *)
LogProgress ==
  /\ pc = "log_progress"
  /\ progressLog' = Append(progressLog,
       [percentTenths |-> stats.doneProgress \div 100,
        scanned |-> stats.scanCount,
        matched |-> stats.eventCount,
        results |-> stats.resultCount])
  /\ log' = Append(log, Msg("info", "progress", ""))
  /\ trace' = Append(trace, "log_stats")
  /\ pc' = "check_done"
  /\ UNCHANGED <<argv, args, exitCode, failure, calls, command, splunk_query,
                 search_query, savedSearches, jobs, job, readyCalls, sleeps,
                 stats, input, result>>

(* Variant: the completion message does not look at isDone. *)
CheckDoneAlways ==
  /\ pc = "check_done"
  /\ log' = Append(log, Msg("info", "completed", ""))
  /\ ExitSuccess
  /\ UNCHANGED <<argv, args, progressLog, trace, calls, command, splunk_query,
                 search_query, savedSearches, jobs, job, readyCalls, sleeps,
                 stats, input, result>>

(* if stats["isDone"] == "1": the completion message; then execute_search
   and main() return. *)
CheckDone ==
  /\ pc = "check_done"
  /\ log' = IF stats.isDone = "1"
            THEN Append(log, Msg("info", "completed", ""))
            ELSE log
  /\ ExitSuccess
  /\ UNCHANGED <<argv, args, progressLog, trace, calls, command, splunk_query,
                 search_query, savedSearches, jobs, job, readyCalls, sleeps,
                 stats, input, result>>

(***************************************************************************)
(* except KeyboardInterrupt at the top level                               *)
(***************************************************************************)
Running ==
  pc \in {"parse_args", "get_credentials", "connect", "dispatch", "delete",
          "convert", "create", "execute", "is_ready", "sleep", "snapshot",
          "log_progress", "check_done"}

(* Variant: no handler at the top level; the interpreter dies of SIGINT. *)
KeyboardInterruptUnhandled ==
  /\ Running
  /\ log' = log
  /\ pc' = "exited"
  /\ exitCode' = 130
  /\ failure' = "interrupt"
  /\ UNCHANGED <<argv, args, progressLog, trace, calls, command, splunk_query,
                 search_query, savedSearches, jobs, job, readyCalls, sleeps,
                 stats, input, result>>

(* Variant: the handler removes the saved search the invocation created. *)
KeyboardInterruptRollback ==
  /\ Running
  /\ log' = Append(log, Msg("info", "interrupted", ""))
  /\ savedSearches' = IF calls.create > 0
                      THEN {s \in savedSearches : s.name # args.name}
                      ELSE savedSearches
  /\ ExitFailure("interrupt")
  /\ UNCHANGED <<argv, args, progressLog, trace, calls, command, splunk_query,
                 search_query, jobs, job, readyCalls, sleeps, stats,
                 input, result>>

(* The interrupt can arrive at any step of main(). *)
KeyboardInterrupt ==
  /\ Running
  /\ log' = Append(log, Msg("info", "interrupted", ""))
  /\ ExitFailure("interrupt")
  /\ UNCHANGED <<argv, args, progressLog, trace, calls, command, splunk_query,
                 search_query, savedSearches, jobs, job, readyCalls, sleeps,
                 stats, input, result>>

(***************************************************************************)
(* The invocation as a whole.                                              *)
(***************************************************************************)
ProgramStep ==
  \/ ParseArgs
  \/ GetCredentials
  \/ Connect
  \/ Dispatch
  \/ DeleteSavedSearch
  \/ Convert
  \/ CreateScheduledSearch
  \/ SubmitJob
  \/ IsReady
  \/ Sleep
  \/ Snapshot
  \/ LogProgress
  \/ CheckDone

Next ==
  \/ ProgramStep
  \/ KeyboardInterrupt

Spec == Init /\ [][Next]_vars

(* Once the job is submitted the interpreter runs the next statement of
   execute_search whenever there is one; the interrupt is the environment's
   and is under no obligation. *)
Fairness ==
  /\ WF_vars(IsReady)
  /\ WF_vars(Sleep)
  /\ WF_vars(Snapshot)
  /\ WF_vars(LogProgress)
  /\ WF_vars(CheckDone)

FairSpec == Spec /\ Fairness


(***************************************************************************)
(* The validators on their own, over generated inputs.  The input records  *)
(* keep the pieces the text was put together from.                         *)
(***************************************************************************)
Idle ==
  /\ argv = NoArgs
  /\ args = NoArgs
  /\ exitCode = -1
  /\ failure = "none"
  /\ log = <<>>
  /\ progressLog = <<>>
  /\ trace = <<>>
  /\ calls = NoCalls
  /\ command = <<>>
  /\ splunk_query = <<>>
  /\ search_query = <<>>
  /\ savedSearches = {}
  /\ jobs = <<>>
  /\ job = NoJob
  /\ readyCalls = 0
  /\ sleeps = <<>>
  /\ stats = NoStats
  /\ result = NotCalled

RECURSIVE Join(_, _)
Join(fields, sep) ==
  IF fields = <<>> THEN <<>>
  ELSE IF Len(fields) = 1 THEN fields[1]
       ELSE fields[1] \o sep \o Join(Tail(fields), sep)

FieldChars == {"*", "/", ",", "-", "3", "x"}
BaseFields == { <<"*">>, <<"3", "x">> }
Pads == { <<>>, <<"\n", " ">> }
Separators == { <<" ">>, <<"\t", " ">> }

(* A schedule of n fields: one of them any text of 1..MaxFieldLen
   characters, the others all the same base field. *)
InitCron ==
  /\ pc = "call_validate_cron"
  /\ Idle
  /\ \E n \in 0..MaxFields, lead \in Pads, trail \in Pads, sep \in Separators,
        base \in BaseFields :
       \E pos \in (IF n = 0 THEN {0} ELSE 1..n) :
         \E any \in (IF n = 0 THEN {<<"*">>}
                     ELSE StringsUpTo(FieldChars, MaxFieldLen) \ {<<>>}) :
           LET fields == [i \in 1..n |-> IF i = pos THEN any ELSE base]
           IN  input = [fields |-> fields,
                        text |-> lead \o Join(fields, sep) \o trail]

CallValidateCron ==
  /\ pc = "call_validate_cron"
  /\ result' = validate_cron(input.text)
  /\ pc' = "returned"
  /\ UNCHANGED <<argv, args, exitCode, failure, log, progressLog, trace, calls,
                 command, splunk_query, search_query, savedSearches, jobs, job,
                 readyCalls, sleeps, stats, input>>

NextCron == CallValidateCron

SpecCron == InitCron /\ [][NextCron]_vars

PortChars == {"0", "3", "5", "6", "-", "+", "_", ":", "a", " "}
HostParts == { <<>>, <<"h">> }

(* An address: a host part without colon, then possibly a colon and any
   text of 0..MaxPortLen characters. *)
InitHost ==
  /\ pc = "call_validate_host_port"
  /\ Idle
  /\ \E host \in HostParts, colon \in BOOLEAN :
       \E port \in (IF colon THEN StringsUpTo(PortChars, MaxPortLen) ELSE {<<>>}) :
         input = [host |-> host, colon |-> colon, port |-> port,
                  text |-> host \o (IF colon THEN <<":">> \o port ELSE <<>>)]

CallValidateHostPort ==
  /\ pc = "call_validate_host_port"
  /\ result' = validate_host_port(input.text)
  /\ pc' = "returned"
  /\ UNCHANGED <<argv, args, exitCode, failure, log, progressLog, trace, calls,
                 command, splunk_query, search_query, savedSearches, jobs, job,
                 readyCalls, sleeps, stats, input>>

NextHost == CallValidateHostPort

SpecHost == InitHost /\ [][NextHost]_vars


(***************************************************************************)
(* Properties.                                                             *)
(***************************************************************************)
HasLogged(m) == \E i \in 1..Len(log) : log[i].msg = m
Logged(m) == {i \in 1..Len(log) : log[i].msg = m}
InTrace(stage) == \E i \in 1..Len(trace) : trace[i] = stage
IsPrefix(s, t) == Len(s) <= Len(t) /\ \A i \in 1..Len(s) : s[i] = t[i]

Exited == pc = "exited"
CreateFlow == ~argv.delete /\ Truthy(argv.rule)
DeleteFlow == argv.delete /\ argv.rule = <<>>

(* parse_args ran and a validator rejected --host or --timer. *)
ValidationFailed ==
  /\ InTrace("validate")
  /\ ~validate_host_port(argv.host).ok \/ ~validate_cron(argv.timer).ok

(* parse_args ran and -r/-d were both given or both missing. *)
UsageError ==
  /\ InTrace("validate")
  /\ (argv.rule # <<>>) = argv.delete

FatalMessages ==
  {"connection_failed", "authentication_failed", "sigma_not_found",
   "conversion_failed", "already_exists", "create_failed", "not_found",
   "interrupted"}

LoggedFatal == \E m \in FatalMessages : HasLogged(m)

(* C1, as stated: an invocation that has ended has exit code 1 after every
   fatal failure, a rejected schedule or host:port included, and exit code 0
   after a run without failure. *)
C1_ExitZeroOrOne ==
  Exited =>
    /\ (ValidationFailed \/ LoggedFatal) => exitCode = 1
    /\ ~(ValidationFailed \/ LoggedFatal \/ UsageError) => exitCode = 0

(* C1, amended: exit code 0 after a run without failure; exit code 1 after a
   failed connection, rejected credentials, a missing or failing converter, a
   rejected create, a delete of an unknown name and an interruption; exit
   code 2 when the argument parser rejects the command line, which is where
   a rejected schedule or host:port ends. *)
C1_ExitCodes ==
  Exited =>
    /\ exitCode \in {0, 1, 2}
    /\ LoggedFatal => exitCode = 1
    /\ ~LoggedFatal /\ (ValidationFailed \/ UsageError) => exitCode = 2
    /\ ~LoggedFatal /\ ~ValidationFailed /\ ~UsageError => exitCode = 0

C1_Witness ==
  /\ Exited
  /\ exitCode = 2
  /\ ~validate_cron(argv.timer).ok
  /\ validate_host_port(argv.host).ok

ClaimedOrder ==
  <<"validate", "translate", "connect", "create", "submit", "poll", "log_stats">>
CreateOrder ==
  <<"validate", "connect", "translate", "create", "submit", "poll", "log_stats">>

(* C2, as stated: in the create-flow the stages are entered in the order
   validate, translate, connect, create, submit, poll, log the statistics. *)
C2_TranslateBeforeConnect ==
  CreateFlow => IsPrefix(trace, ClaimedOrder)

(* C2, amended: in the create-flow the stages are entered in the order
   validate, connect, translate, create, submit, poll, log the statistics;
   each one is entered only after the one before it succeeded, and exit
   code 0 comes only after the statistics were logged. *)
C2_CreateFlowOrder ==
  CreateFlow =>
    /\ IsPrefix(trace, CreateOrder)
    /\ InTrace("connect") => validate_cron(argv.timer).ok
    /\ InTrace("translate") => HasLogged("connected")
    /\ InTrace("create") => HasLogged("generated_query")
    /\ InTrace("submit") => HasLogged("created")
    /\ InTrace("poll") => HasLogged("job_created")
    /\ InTrace("log_stats") => job.notReadyLeft = 0 /\ readyCalls > 0
    /\ Exited /\ exitCode = 0 => trace = CreateOrder

C2_Witness ==
  /\ CreateFlow
  /\ Exited
  /\ exitCode = 0
  /\ trace = CreateOrder

(* The readiness check answered ready. *)
ReadyObserved ==
  /\ job.created
  /\ pc \in {"snapshot", "log_progress", "check_done"} \/ stats.taken > 0

(* C3: for a job that is not ready n times and then ready, once ready was
   observed the readiness check has been called n+1 times with n sleeps of 2
   seconds, and stays so; when execute has returned, one snapshot was read, one progress
   line was logged, and the completion message was logged exactly when the
   snapshot's isDone is "1". *)
C3_PollThenOneSnapshot ==
  /\ ReadyObserved =>
       /\ job.n # Never
       /\ readyCalls = job.n + 1
       /\ Len(sleeps) = job.n
       /\ \A i \in 1..Len(sleeps) : sleeps[i] = 2
  /\ job.created /\ Exited /\ exitCode = 0 =>
       /\ stats.taken = 1
       /\ stats.isDone = job.metrics.isDone
       /\ Len(progressLog) = 1
       /\ Cardinality(Logged("progress")) = 1
       /\ Cardinality(Logged("completed")) = (IF stats.isDone = "1" THEN 1 ELSE 0)

C3_Witness ==
  /\ job.created
  /\ Exited
  /\ exitCode = 0
  /\ job.n = 2
  /\ readyCalls = 3
  /\ sleeps = <<2, 2>>
  /\ stats.isDone = "0"
  /\ ~HasLogged("completed")


(***************************************************************************)
(* The schedule grammar and the integer notation, stated on the text       *)
(* rather than by scanning it.                                             *)
(***************************************************************************)
IsInteger(f) == Len(f) >= 1 /\ \A i \in 1..Len(f) : f[i] \in Digits
IsStar(f) == f = <<"*">>
IsStep(f) ==
  /\ Len(f) >= 3
  /\ SubSeq(f, 1, 2) = <<"*", "/">>
  /\ IsInteger(SubSeq(f, 3, Len(f)))
IsIntegerList(f) ==
  /\ Len(f) >= 1
  /\ \A i \in 1..Len(f) : f[i] \in Digits \cup {","}
  /\ f[1] # "," /\ f[Len(f)] # ","
  /\ \A i \in 1..(Len(f) - 1) : ~(f[i] = "," /\ f[i + 1] = ",")
IsRange(f) ==
  \E k \in 2..(Len(f) - 1) :
    /\ f[k] = "-"
    /\ IsInteger(SubSeq(f, 1, k - 1))
    /\ IsInteger(SubSeq(f, k + 1, Len(f)))

InGrammar(f) ==
  IsStar(f) \/ IsInteger(f) \/ IsStep(f) \/ IsIntegerList(f) \/ IsRange(f)

(* C4: validate_cron accepts a text exactly when it has five
   whitespace-separated fields that are each `*`, an integer, `*/N`, a
   comma-separated list of integers or a range `A-B`; it then returns the
   text as given, surrounding whitespace included, and otherwise raises: for
   a field count other than five and for a field outside the grammar. *)
C4_ValidateCron ==
  pc = "returned" /\ result.err # "not_called" /\ "fields" \in DOMAIN input =>
    LET fields == input.fields
        wellFormed == \A i \in 1..Len(fields) : InGrammar(fields[i])
    IN  /\ result.ok <=> (Len(fields) = 5 /\ wellFormed)
        /\ result.ok => result.value = input.text
        /\ Len(fields) # 5 => result.err = "field_count"
        /\ Len(fields) = 5 /\ ~wellFormed => result.err = "invalid_field"

C4_Witness ==
  /\ pc = "returned"
  /\ "fields" \in DOMAIN input
  /\ result.ok
  /\ result.value = input.text
  /\ input.text # Strip(input.text)
  /\ \E i \in 1..Len(input.fields) : IsIntegerList(input.fields[i]) /\ ~IsInteger(input.fields[i])

(* The text without the whitespace at its two ends. *)
Trimmed(s) ==
  LET solid == {i \in 1..Len(s) : s[i] \notin Whitespace}
  IN  IF solid = {} THEN <<>>
      ELSE SubSeq(s, CHOOSE i \in solid : \A j \in solid : i <= j,
                     CHOOSE i \in solid : \A j \in solid : i >= j)

Unsigned(t) == IF t # <<>> /\ t[1] \in {"+", "-"} THEN Tail(t) ELSE t

(* What int() reads: digits, single underscores allowed between them, after
   an optional sign, with whitespace allowed around the whole. *)
IsIntegerText(s) ==
  LET b == Unsigned(Trimmed(s))
  IN  /\ Len(b) >= 1
      /\ \A i \in 1..Len(b) : b[i] \in Digits \cup {"_"}
      /\ b[1] # "_" /\ b[Len(b)] # "_"
      /\ \A i \in 1..(Len(b) - 1) : ~(b[i] = "_" /\ b[i + 1] = "_")

IsDigit(c) == c \in Digits

RECURSIVE PositionalSum(_, _)
PositionalSum(b, i) ==
  IF i > Len(b) THEN 0
  ELSE DigitValue(b[i]) * 10 ^ (Len(b) - i) + PositionalSum(b, i + 1)

IntegerValue(s) ==
  LET t == Trimmed(s)
      d == SelectSeq(Unsigned(t), IsDigit)
  IN  IF t[1] = "-" THEN 0 - PositionalSum(d, 1) ELSE PositionalSum(d, 1)

(* C5: validate_host_port accepts an address exactly when it has a colon
   and what follows the first colon reads as an integer in 1..65535, and then
   returns the address as given; without colon it raises the format error,
   for a port that is no integer (one that holds a colon included) the
   not-an-integer error, and for a port out of range the range error, which
   the handler of the not-an-integer case does not replace. *)
C5_ValidateHostPort ==
  pc = "returned" /\ result.err # "not_called" /\ "port" \in DOMAIN input =>
    LET isInt == IsIntegerText(input.port)
        inRange == isInt /\ 1 <= IntegerValue(input.port)
                         /\ IntegerValue(input.port) <= 65535
    IN  /\ result.ok <=> (input.colon /\ inRange)
        /\ result.ok => result.value = input.text
        /\ ~input.colon => result.err = "format"
        /\ input.colon /\ ~isInt => result.err = "not_integer"
        /\ input.colon /\ isInt /\ ~inRange => result.err = "out_of_range"
        /\ (\E i \in 1..Len(input.port) : input.port[i] = ":") => ~result.ok

C5_Witness ==
  /\ pc = "returned"
  /\ "port" \in DOMAIN input
  /\ input.port = <<"6", "5", "5", "3", "6">>
  /\ result.err = "out_of_range"


(***************************************************************************)
(* Properties of the flows.                                                *)
(***************************************************************************)
CreateRejected == HasLogged("already_exists") \/ HasLogged("create_failed")

(* C6: when the platform rejects the create request the process has ended
   with a non-zero exit code and no job was submitted; a 409 is logged as a
   conflict naming the requested search, any other status with the
   platform's diagnostic. *)
C6_CreateRejected ==
  CreateRejected =>
    /\ Exited
    /\ exitCode # 0
    /\ jobs = <<>>
    /\ calls.submit = 0
    /\ ~job.created
    /\ \A i \in Logged("already_exists") :
         log[i].level = "error" /\ log[i].arg = argv.name /\ Exists(argv.name)
    /\ \A i \in Logged("create_failed") :
         log[i].level = "error" /\ log[i].arg \in {"HTTP 400", "HTTP 500"}
    /\ ~(HasLogged("already_exists") /\ HasLogged("create_failed"))

C6_Witness ==
  /\ HasLogged("already_exists")
  /\ Exited
  /\ exitCode = 1
  /\ calls.create = 1

(* A step of the delete-flow changes the platform only by the delete
   request, which removes the given name and nothing else; the request ends
   the process, with exit code 1 and the not-found error when the platform
   does not have the name. *)
DeleteStep ==
  DeleteFlow =>
    IF pc = "delete" /\ calls'.delete = calls.delete + 1
    THEN /\ savedSearches' = {s \in savedSearches : s.name # argv.name}
         /\ pc' = "exited"
         /\ IF Exists(argv.name)
            THEN exitCode' = 0 /\ log'[Len(log')] = Msg("info", "deleted", argv.name)
            ELSE exitCode' = 1 /\ log'[Len(log')] = Msg("error", "not_found", argv.name)
    ELSE savedSearches' = savedSearches /\ calls'.delete = calls.delete

(* C7: in the delete-flow the platform sees one connect and then one delete
   request for the given name and nothing else: no converter run, no create,
   no job, whatever schedule or pipeline was given; a name the platform does
   not have ends the flow with the not-found error and a non-zero exit
   code. *)
C7_DeleteFlow ==
  /\ [](DeleteFlow =>
         /\ IsPrefix(trace, <<"validate", "connect", "delete">>)
         /\ calls.connect <= 1 /\ calls.delete <= 1
         /\ calls.translate = 0 /\ calls.create = 0 /\ calls.submit = 0
         /\ command = <<>> /\ jobs = <<>> /\ ~job.created
         /\ \A s \in savedSearches : s.search = <<"o", "l", "d">>
         /\ HasLogged("not_found") => Exited /\ exitCode # 0
         /\ HasLogged("deleted") => ~Exists(argv.name))
  /\ [][DeleteStep]_vars

C7_Witness ==
  /\ DeleteFlow
  /\ argv.pipeline = "sysmon"
  /\ argv.timer # DefaultTimer
  /\ HasLogged("not_found")
  /\ Exited
  /\ exitCode = 1
  /\ calls.connect = 1
  /\ calls.delete = 1

(* The saved searches stored under the requested name with the given text. *)
StoredAs(text) == {s \in savedSearches : s.name = argv.name /\ s.search = text}

(* C8: in a create-flow the converter runs at most once and create is
   called at most once, both exactly once when the flow succeeds; the saved
   search is stored as `search ` followed by the converter's output, and the
   job is submitted with that same text. *)
C8_WrappedOnce ==
  /\ calls.translate <= 1
  /\ calls.create <= 1
  /\ calls.submit <= 1
  /\ HasLogged("created") =>
       /\ StoredAs(SearchPrefix \o splunk_query) # {}
       /\ \A s \in savedSearches : s.name = argv.name => s.search = SearchPrefix \o splunk_query
  /\ jobs # <<>> =>
       /\ jobs = <<SearchPrefix \o splunk_query>>
       /\ StoredAs(jobs[1]) # {}
  /\ CreateFlow /\ Exited /\ exitCode = 0 =>
       calls.translate = 1 /\ calls.create = 1 /\ Len(jobs) = 1

C8_Witness ==
  /\ CreateFlow
  /\ Exited
  /\ exitCode = 0
  /\ splunk_query = <<"s", "e", "a", "r", "c", "h", " ", "x">>
  /\ jobs = <<SearchPrefix \o <<"s", "e", "a", "r", "c", "h", " ", "x">>>>

Interrupted == HasLogged("interrupted")

(* C9: execute on a job that becomes ready after finitely many checks comes
   to its end unless it is interrupted; on a job that never becomes ready it
   stays in the polling loop, reads no snapshot and logs no progress line,
   and the process ends only by interruption. *)
C9_Termination ==
  /\ (job.created /\ job.n # Never) ~>
       (Exited /\ (Interrupted \/ (exitCode = 0 /\ stats.taken = 1)))
  /\ [](job.created /\ job.n = Never =>
         /\ pc \in {"is_ready", "sleep", "exited"}
         /\ stats.taken = 0
         /\ progressLog = <<>>
         /\ ~HasLogged("progress")
         /\ Exited => Interrupted /\ exitCode = 1)

C9_Witness ==
  /\ job.created
  /\ job.n = Never
  /\ pc = "sleep"
  /\ readyCalls = CountCap
  /\ Len(sleeps) = CountCap

(* C10: once create has succeeded the saved search is on the platform in
   every later state of the invocation, and an invocation that ran the
   converter or called create sends no delete request. *)
C10_NoRollback ==
  /\ HasLogged("created") =>
       \E s \in savedSearches :
         s.name = argv.name /\ s.search = search_query /\ s.cron_schedule = argv.timer
  /\ calls.translate > 0 \/ calls.create > 0 =>
       calls.delete = 0 /\ ~InTrace("delete")

C10_Witness ==
  /\ HasLogged("created")
  /\ job.created
  /\ job.n = Never
  /\ Exited
  /\ Interrupted
  /\ Exists(argv.name)

====
